---------------------------- MODULE Spec2Model ----------------------------
(* Model of the MQTT gateway plugin in src/app.js: the authorized-device   *)
(* registry (authorizedDevices), the topic access control hooks installed   *)
(* on the broker, and the 'published' message router with its              *)
(* async.waterfall parse pipelines.                                        *)
EXTENDS Integers, Sequences, FiniteSets, TLC

(***************************************************************************)
(* JavaScript values.  Every value is a record tagged by its type; the     *)
(* payload field has a different name per type.                            *)
(***************************************************************************)
Undefined == [t |-> "undefined"]
Null      == [t |-> "null"]
Num(n)    == [t |-> "number", n |-> n]
Str(s)    == [t |-> "string", s |-> s]
Arr(e)    == [t |-> "array", e |-> e]
Obj(f)    == [t |-> "object", f |-> f]

\* An object without own properties: {}
EmptyMap == [k \in {} |-> Undefined]

\* obj[k] = v on a plain object used as a map
Put(m, k, v) == [x \in (DOMAIN m) \cup {k} |-> IF x = k THEN v ELSE m[x]]

\* delete obj[k]
Delete(m, k) == [x \in (DOMAIN m) \ {k} |-> m[x]]

\* obj[k]: undefined when obj has no such own property (what a plain object
\* inherits, such as constructor, is a function or a prototype object, which
\* isEmpty treats like undefined)
Lookup(m, k) == IF k \in DOMAIN m THEN m[k] ELSE Undefined

\* value.prop on a non-null JavaScript value (strings, numbers and arrays
\* carry none of the properties read by the program)
Get(v, k) == IF v.t = "object" THEN Lookup(v.f, k) ELSE Undefined

\* lodash.isempty: null/undefined, numbers and booleans are empty; strings,
\* buffers and arrays are empty when their length is 0; objects when they
\* have no own enumerable property.
isEmpty(v) ==
    CASE v.t \in {"undefined", "null"} -> TRUE
      [] v.t \in {"string", "buffer"} -> v.s = ""
      [] v.t = "array"  -> Len(v.e) = 0
      [] v.t = "object" -> DOMAIN v.f = {}
      [] OTHER -> TRUE

\* The property key a value is converted to when used as obj[value]
ToKey(v) ==
    CASE v.t = "string" -> v.s
      [] v.t = "null" -> "null"
      [] OTHER -> "undefined"

\* lodash property('_id'): undefined for null/undefined, else object[key]
Property(v, k) == IF v.t \in {"undefined", "null"} THEN Undefined ELSE Get(v, k)

\* lodash.keyby(collection, '_id'): result[String(record._id)] = record for
\* each record in order, a later record replacing an earlier one
RECURSIVE keyByInto(_, _, _)
keyByInto(acc, recs, k) ==
    IF recs = <<>> THEN acc
    ELSE keyByInto(Put(acc, ToKey(Property(Head(recs), k)), Head(recs)), Tail(recs), k)

keyBy(coll, k) == IF coll.t = "array" THEN keyByInto(EmptyMap, coll.e, k) ELSE EmptyMap


(***************************************************************************)
(* String helpers.  TLA+ strings are atomic, so the string functions are   *)
(* given on the strings the model feeds them.                              *)
(***************************************************************************)
\* String.prototype.split(','): the pieces between the commas
split(s) ==
    CASE s = "shared"          -> <<"shared">>
      [] s = "shared, extra "  -> <<"shared", " extra ">>
      [] s = "shared,shared"   -> <<"shared", "shared">>
      [] OTHER -> <<s>>

\* lodash.trim: leading and trailing whitespace removed
trim(s) ==
    CASE s = " extra " -> "extra"
      [] OTHER -> s

\* lodash.map(list, trim)
map_trim(list) == [i \in 1..Len(list) |-> trim(list[i])]

\* lodash.uniq: first occurrences, in order
RECURSIVE uniqInto(_, _)
uniqInto(acc, list) ==
    IF list = <<>> THEN acc
    ELSE IF \E i \in 1..Len(acc) : acc[i] = Head(list)
         THEN uniqInto(acc, Tail(list))
         ELSE uniqInto(Append(acc, Head(list)), Tail(list))

uniq(list) == uniqInto(<<>>, list)

\* lodash.keyby(list) without an iteratee: result[s] = s
RECURSIVE keyByIdentity(_, _)
keyByIdentity(acc, list) ==
    IF list = <<>> THEN acc
    ELSE keyByIdentity(Put(acc, Head(list), Str(Head(list))), Tail(list))

\* parseInt on the decimal strings the options carry; on a number it is the
\* number itself (parseInt converts its argument to a string first)
parseInt(v) ==
    CASE v.t = "number" -> v
      [] v.t = "string" /\ v.s = "0" -> Num(0)
      [] v.t = "string" /\ v.s = "1" -> Num(1)
      [] v.t = "string" /\ v.s = "2" -> Num(2)
      [] OTHER -> [t |-> "NaN"]

(***************************************************************************)
(* Configuration defaults (config.json) and the inputs of the model.       *)
(***************************************************************************)
DefaultDataTopic         == "data"
DefaultMessageTopic      == "message"
DefaultGroupMessageTopic == "groupmessage"

\* Largest number of records in the registeredDevices snapshot of 'ready'
MaxSnapshot == 2
\* Largest number of async.waterfall callbacks waiting to run
MaxPending == 2

DeviceIds == {"dev1", "dev2"}
\* MQTT client identifiers (non-empty); "undefined" is a legal identifier
ClientIds == DeviceIds \cup {"undefined"}

Device(id) == Obj("_id" :> Str(id))

\* Device records the platform may hand to adddevice / removedevice
DeviceInputs ==
    {Undefined, Null, Obj(EmptyMap), Obj("name" :> Str("x")), Device("")}
    \cup {Device(id) : id \in DeviceIds}

\* Records that may appear in the registeredDevices snapshot
SnapshotRecords ==
    {Obj(EmptyMap), Obj("name" :> Str("x"))} \cup {Device(id) : id \in DeviceIds}

RECURSIVE SeqsUpTo(_, _)
SeqsUpTo(S, n) ==
    IF n = 0 THEN {<<>>}
    ELSE LET shorter == SeqsUpTo(S, n - 1)
         IN shorter \cup {Append(q, x) : q \in shorter, x \in S}

Snapshots == {Undefined} \cup {Arr(q) : q \in SeqsUpTo(SnapshotRecords, MaxSnapshot)}

QosOptions == {Undefined, Num(0), Num(1), Num(2), Str("1"), Str("2")}
DataTopicOptions == {Undefined, Str("telemetry")}
AuthorizedTopicsOptions ==
    {Undefined, Str(""), Str("shared"), Str("shared, extra "), Str("shared,shared")}

Options(QS, DS, AS) ==
    [qos : QS, data_topic : DS, message_topic : {Undefined},
     groupmessage_topic : {Undefined}, authorized_topics : AS,
     user : {Undefined}, password : {Undefined}]

DefaultOptions == Options({Undefined}, {Undefined}, {Undefined})

\* Topics a client names when it publishes or subscribes (MQTT topic names
\* are at least one character long)
Topics == {DefaultDataTopic, "shared", "extra", "other"} \cup ClientIds

(***************************************************************************)
(* State.                                                                  *)
(***************************************************************************)
VARIABLES
    authorizedDevices,   \* the registry: device id -> device record
    server,              \* "none", "created" (after 'ready'), "ready" (hooks installed)
    options,             \* the options of 'ready', kept by the handlers' closures
    qos,                 \* the qos of every publish this plugin issues
    dataTopic, messageTopic, groupMessageTopic,
    authorizedTopics,    \* topic -> topic
    pending,             \* async.waterfall final callbacks not yet run, oldest first
    ev,                  \* the event most recently handled
    out,                 \* the calls that handler made, in order
    lastAddRemove,       \* history: per id, the last valid adddevice/removedevice
    replaced,            \* history: per id, a snapshot replaced the registry since then
    snapshot,            \* history: the registeredDevices argument of 'ready'
    closeState,          \* "open", "closing" (server.close called), "closed",
                         \* "failed" (no broker to close), "errored" (error
                         \* in the domain while the broker closes)
    exited,              \* process.exit was called
    notifyCloses         \* how many times platform.notifyClose was called

config   == <<server, options, qos, dataTopic, messageTopic, groupMessageTopic, authorizedTopics>>
history  == <<lastAddRemove, replaced, snapshot>>
lifecycle == <<closeState, exited, notifyCloses>>
vars     == <<authorizedDevices, config, pending, ev, out, history, lifecycle>>

\* Keys the history variables follow
Keys == DeviceIds \cup {"undefined", ""}

Init ==
    /\ authorizedDevices = EmptyMap
    /\ server = "none"
    /\ options = Undefined
    /\ qos = Undefined
    /\ dataTopic = Undefined
    /\ messageTopic = Undefined
    /\ groupMessageTopic = Undefined
    /\ authorizedTopics = EmptyMap
    /\ pending = <<>>
    /\ ev = [type |-> "none"]
    /\ out = <<>>
    /\ lastAddRemove = [k \in Keys |-> "none"]
    /\ replaced = [k \in Keys |-> FALSE]
    /\ snapshot = Undefined
    /\ closeState = "open"
    /\ exited = FALSE
    /\ notifyCloses = 0

(***************************************************************************)
(* Calls on the platform and on the broker, as recorded in out.            *)
(***************************************************************************)
log(text)               == [call |-> "log", text |-> text]
handleException(error)  == [call |-> "handleException", error |-> error]
notifyReady             == [call |-> "notifyReady"]
callback(result)        == [call |-> "callback", result |-> result]

(***************************************************************************)
(* platform.on('adddevice') and platform.on('removedevice')                *)
(***************************************************************************)
ValidDevice(device) == ~isEmpty(device) /\ ~isEmpty(Get(device, "_id"))

\* adddevice without the validity check
addDevice_unchecked(devices, device) ==
    Put(devices, ToKey(Get(device, "_id")), device)

\* The registry after adddevice
addDevice(devices, device) ==
    IF ValidDevice(device)
    THEN Put(devices, ToKey(Get(device, "_id")), device)
    ELSE devices

\* removedevice that forgets to delete the entry
removeDevice_keeps(devices, device) == devices

\* The registry after removedevice
removeDevice(devices, device) ==
    IF ValidDevice(device)
    THEN Delete(devices, ToKey(Get(device, "_id")))
    ELSE devices

AddDevice(device) ==
    /\ authorizedDevices' = addDevice(authorizedDevices, device)
    /\ out' = IF ValidDevice(device)
              THEN <<log(<<"Successfully added ", Get(device, "_id").s,
                           " to the pool of authorized devices.">>)>>
              ELSE <<handleException(<<"Device data invalid. Device not added.">>)>>
    /\ ev' = [type |-> "adddevice", device |-> device]
    /\ IF ValidDevice(device)
       THEN /\ lastAddRemove' = [lastAddRemove EXCEPT ![Get(device, "_id").s] = "add"]
            /\ replaced' = [replaced EXCEPT ![Get(device, "_id").s] = FALSE]
       ELSE UNCHANGED <<lastAddRemove, replaced>>
    /\ UNCHANGED <<lifecycle, config, pending, snapshot>>

RemoveDevice(device) ==
    /\ authorizedDevices' = removeDevice(authorizedDevices, device)
    /\ out' = IF ValidDevice(device)
              THEN <<log(<<"Successfully removed ", Get(device, "_id").s,
                           " from the pool of authorized devices.">>)>>
              ELSE <<handleException(<<"Device data invalid. Device not removed.">>)>>
    /\ ev' = [type |-> "removedevice", device |-> device]
    /\ IF ValidDevice(device)
       THEN /\ lastAddRemove' = [lastAddRemove EXCEPT ![Get(device, "_id").s] = "remove"]
            /\ replaced' = [replaced EXCEPT ![Get(device, "_id").s] = FALSE]
       ELSE UNCHANGED <<lastAddRemove, replaced>>
    /\ UNCHANGED <<lifecycle, config, pending, snapshot>>

(***************************************************************************)
(* platform.once('ready')                                                  *)
(***************************************************************************)
\* a || b
OrDefault(a, b) == IF a.t = "string" /\ a.s # "" THEN a ELSE b

\* The qos kept for every later publish
configuredQos(opts) ==
    IF opts.qos = Num(0) \/ isEmpty(opts.qos)
    THEN Num(0)
    ELSE parseInt(opts.qos)

\* The registry after 'ready'
initialize(devices, registeredDevices) ==
    IF ~isEmpty(registeredDevices)
    THEN keyBy(registeredDevices, "_id")
    ELSE devices

\* The authorized topics: the three system topics plus the operator's list
buildAuthorizedTopics(tmpTopics, option) ==
    LET listed == IF ~isEmpty(option) THEN tmpTopics \o split(option.s) ELSE tmpTopics
    IN keyByIdentity(EmptyMap, uniq(map_trim(listed)))

NonEmptySnapshot(registeredDevices) ==
    registeredDevices.t = "array" /\ Len(registeredDevices.e) > 0

Ready(opts, registeredDevices) ==
    /\ server = "none"
    /\ qos' = configuredQos(opts)
    /\ authorizedDevices' = initialize(authorizedDevices, registeredDevices)
    /\ dataTopic' = OrDefault(opts.data_topic, Str(DefaultDataTopic))
    /\ messageTopic' = OrDefault(opts.message_topic, Str(DefaultMessageTopic))
    /\ groupMessageTopic' =
           OrDefault(opts.groupmessage_topic, Str(DefaultGroupMessageTopic))
    /\ authorizedTopics' =
           buildAuthorizedTopics(<<dataTopic'.s, messageTopic'.s, groupMessageTopic'.s>>,
                                 opts.authorized_topics)
    /\ server' = "created"
    /\ options' = opts
    /\ out' = <<>>
    /\ ev' = [type |-> "ready", options |-> opts,
              registeredDevices |-> registeredDevices]
    /\ snapshot' = registeredDevices
    /\ replaced' = IF NonEmptySnapshot(registeredDevices)
                   THEN [k \in Keys |-> TRUE]
                   ELSE replaced
    /\ UNCHANGED <<lifecycle, pending, lastAddRemove>>

(***************************************************************************)
(* server.on('ready'): the authorization hooks are installed               *)
(***************************************************************************)
ServerReady ==
    /\ server = "created"
    /\ server' = "ready"
    /\ out' = <<log(<<"MQTT Gateway initialized on port">>), notifyReady>>
    /\ ev' = [type |-> "serverReady"]
    /\ UNCHANGED <<lifecycle, authorizedDevices, options, qos, dataTopic, messageTopic,
                   groupMessageTopic, authorizedTopics, pending, history>>

(***************************************************************************)
(* Topic access control                                                    *)
(***************************************************************************)
NotAuthorized(client, what) ==
    handleException(<<"Device ", client, " is not authorized to ">> \o what
                    \o <<". Device not registered.">>)

\* a publish hook without the own-topic exception
authorizePublish_noOwnTopic(client, topic) ==
    LET isAuthorized == \/ ~isEmpty(Lookup(authorizedDevices, client))
                        \/ ~isEmpty(Lookup(authorizedTopics, topic))
    IN (IF ~isAuthorized
        THEN <<NotAuthorized(client, <<"publish to topic ", topic>>)>>
        ELSE <<>>)
       \o <<callback(isAuthorized)>>

authorizePublish(client, topic) ==
    LET isAuthorized == \/ ~isEmpty(Lookup(authorizedDevices, client))
                        \/ topic = client
                        \/ ~isEmpty(Lookup(authorizedTopics, topic))
    IN (IF ~isAuthorized
        THEN <<NotAuthorized(client, <<"publish to topic ", topic>>)>>
        ELSE <<>>)
       \o <<callback(isAuthorized)>>

\* a subscribe hook that lets registered devices through only
authorizeSubscribe_registeredOnly(client, topic) ==
    LET isAuthorized == ~isEmpty(Lookup(authorizedDevices, client))
    IN (IF ~isAuthorized
        THEN <<NotAuthorized(client, <<"subscribe to topic ", topic>>)>>
        ELSE <<>>)
       \o <<callback(isAuthorized)>>

authorizeSubscribe(client, topic) ==
    LET isAuthorized == \/ ~isEmpty(Lookup(authorizedDevices, client))
                        \/ topic = client
                        \/ ~isEmpty(Lookup(authorizedTopics, topic))
    IN (IF ~isAuthorized
        THEN <<NotAuthorized(client, <<"subscribe to topic ", topic>>)>>
        ELSE <<>>)
       \o <<callback(\/ ~isEmpty(Lookup(authorizedDevices, client))
                     \/ topic = client
                     \/ ~isEmpty(Lookup(authorizedTopics, topic)))>>

\* a forward hook that applies the publish rule to the packet's topic
authorizeForward_asPublish(client, packet) ==
    authorizePublish(client, packet.topic)

authorizeForward(client, packet) ==
    LET isAuthorized == ~isEmpty(Lookup(authorizedDevices, client))
    IN (IF ~isAuthorized
        THEN <<NotAuthorized(client, <<"forward messages">>)>>
        ELSE <<>>)
       \o <<callback(~isEmpty(Lookup(authorizedDevices, client)))>>

AuthorizePublish(client, topic) ==
    /\ server = "ready"
    /\ out' = authorizePublish(client, topic)
    /\ ev' = [type |-> "authorizePublish", client |-> client, topic |-> topic]
    /\ UNCHANGED <<lifecycle, authorizedDevices, config, pending, history>>

AuthorizeSubscribe(client, topic) ==
    /\ server = "ready"
    /\ out' = authorizeSubscribe(client, topic)
    /\ ev' = [type |-> "authorizeSubscribe", client |-> client, topic |-> topic]
    /\ UNCHANGED <<lifecycle, authorizedDevices, config, pending, history>>

\* a forward hook that remembers the client it decided for
AuthorizeForward_registers(client, packet) ==
    /\ server = "ready"
    /\ out' = authorizeForward(client, packet)
    /\ ev' = [type |-> "authorizeForward", client |-> client, topic |-> packet.topic]
    /\ authorizedDevices' = Put(authorizedDevices, client, Device(client))
    /\ UNCHANGED <<lifecycle, config, pending, history>>

AuthorizeForward(client, packet) ==
    /\ server = "ready"
    /\ out' = authorizeForward(client, packet)
    /\ ev' = [type |-> "authorizeForward", client |-> client, topic |-> packet.topic]
    /\ UNCHANGED <<lifecycle, authorizedDevices, config, pending, history>>

(***************************************************************************)
(* The registry: 'ready', adddevice, removedevice in any order, with the   *)
(* forward authorization that reads it.                                    *)
(***************************************************************************)
NextRegistry ==
    \/ \E opts \in DefaultOptions, registeredDevices \in Snapshots :
           Ready(opts, registeredDevices)
    \/ ServerReady
    \/ \E device \in DeviceInputs : AddDevice(device)
    \/ \E device \in DeviceInputs : RemoveDevice(device)
    \/ \E client \in ClientIds : AuthorizeForward(client, [topic |-> client])

SpecRegistry == Init /\ [][NextRegistry]_vars

(***************************************************************************)
(* The registry initialized from snapshots whose records all carry an      *)
(* identity.                                                               *)
(***************************************************************************)
IdentifiedSnapshots ==
    {Arr(q) : q \in SeqsUpTo({Device(id) : id \in DeviceIds}, MaxSnapshot)}

NextInitialize ==
    \/ \E opts \in DefaultOptions, registeredDevices \in IdentifiedSnapshots :
           Ready(opts, registeredDevices)
    \/ ServerReady
    \/ \E device \in DeviceInputs : AddDevice(device)
    \/ \E device \in DeviceInputs : RemoveDevice(device)
    \/ \E client \in ClientIds : AuthorizeForward(client, [topic |-> client])

SpecInitialize == Init /\ [][NextInitialize]_vars

(***************************************************************************)
(* Properties of the registry.                                             *)
(***************************************************************************)
\* The boolean a hook hands to the broker: the argument of its last call
Result(effects) == effects[Len(effects)].result

\* The registry reports id authorized
Authorized(id) == Result(authorizeForward(id, [topic |-> id]))

\* The key a snapshot record is filed under: its _id, "undefined" without one
FiledUnder(record) ==
    IF record.t = "object" /\ "_id" \in DOMAIN record.f
    THEN record.f["_id"].s
    ELSE "undefined"

\* The snapshot's last record filed under id has at least one field
SnapshotHolds(id) ==
    /\ snapshot.t = "array"
    /\ \E i \in 1..Len(snapshot.e) :
          /\ FiledUnder(snapshot.e[i]) = id
          /\ snapshot.e[i].t = "object" /\ DOMAIN snapshot.e[i].f # {}
          /\ \A j \in (i + 1)..Len(snapshot.e) : FiledUnder(snapshot.e[j]) # id

\* C1 as stated: after any sequence of ready, adddevice and removedevice
\* events, an id that was added with a valid record and not removed since is
\* authorized, and an id that was removed after being added is not.
C1_AddedAuthorizedRemovedNot ==
    \A id \in DeviceIds :
        /\ lastAddRemove[id] = "add" => Authorized(id)
        /\ lastAddRemove[id] = "remove" => ~Authorized(id)

\* C1 amended: an id is authorized if and only if either the last valid
\* add/remove event for it was an add and no ready with a non-empty snapshot
\* came after it, or a ready with a non-empty snapshot came after its last
\* add/remove event (or it had none) and the last snapshot record filed
\* under that id is a non-empty record.
C1_AuthorizedIffLastAddOrSnapshot ==
    \A id \in Keys :
        Authorized(id) <=> IF replaced[id]
                           THEN SnapshotHolds(id)
                           ELSE lastAddRemove[id] = "add"

\* C1 witness: a removed device is authorized again because a later ready
\* carried it in its snapshot, and the forward hook has answered for it.
C1_Witness ==
    /\ lastAddRemove["dev1"] = "remove"
    /\ replaced["dev1"]
    /\ ev.type = "authorizeForward" /\ ev.client = "dev1"
    /\ Result(out) = TRUE

\* The identities of the records of a snapshot
Identities(registeredDevices) ==
    IF registeredDevices.t = "array"
    THEN {registeredDevices.e[i].f["_id"].s :
             i \in {j \in 1..Len(registeredDevices.e) :
                       /\ registeredDevices.e[j].t = "object"
                       /\ "_id" \in DOMAIN registeredDevices.e[j].f}}
    ELSE {}

\* C2 as stated: whatever the registry held before, right after ready the
\* set of registered ids is exactly the set of identities of the snapshot's
\* records, the empty snapshot included.
C2_ReadyReplacesRegistry ==
    ev.type = "ready" => DOMAIN authorizedDevices = Identities(ev.registeredDevices)

\* A device record that is empty or whose identity is missing or empty
Malformed(device) ==
    \/ device.t # "object"
    \/ DOMAIN device.f = {}
    \/ "_id" \notin DOMAIN device.f
    \/ device.f["_id"] = Str("")

\* C3: an adddevice or removedevice event whose record is empty or whose
\* identity is empty reports one validation failure to the exception channel
\* and leaves the registry exactly as it was.
C3_MalformedDeviceNoMutation ==
    [][(ev'.type \in {"adddevice", "removedevice"} /\ Malformed(ev'.device))
          => /\ authorizedDevices' = authorizedDevices
             /\ Len(out') = 1
             /\ out'[1].call = "handleException"]_vars

\* C3 witness: a record with an empty identity was offered to a registry
\* that holds a device, and the failure was reported.
C3_Witness ==
    /\ ev.type = "adddevice"
    /\ ev.device = Device("")
    /\ "dev1" \in DOMAIN authorizedDevices
    /\ out[1].call = "handleException"

(***************************************************************************)
(* Topic access control over every configuration of the authorized topics. *)
(***************************************************************************)
AccessSnapshots == {Undefined} \cup {Arr(q) : q \in SeqsUpTo(SnapshotRecords, 1)}

NextAccess ==
    \/ \E opts \in Options({Undefined}, {Undefined}, AuthorizedTopicsOptions),
          registeredDevices \in AccessSnapshots :
           Ready(opts, registeredDevices)
    \/ ServerReady
    \/ \E device \in DeviceInputs : AddDevice(device)
    \/ \E device \in DeviceInputs : RemoveDevice(device)
    \/ \E client \in ClientIds, topic \in Topics : AuthorizePublish(client, topic)
    \/ \E client \in ClientIds, topic \in Topics : AuthorizeSubscribe(client, topic)
    \/ \E client \in ClientIds, topic \in Topics :
           AuthorizeForward(client, [topic |-> topic])

SpecAccess == Init /\ [][NextAccess]_vars

\* The Device Registry holds a device under id: an entry whose record is an
\* object with at least one field
InRegistry(id) ==
    /\ id \in DOMAIN authorizedDevices
    /\ authorizedDevices[id].t = "object"
    /\ DOMAIN authorizedDevices[id].f # {}

\* The Authorized Topic Set
AuthorizedTopicSet == DOMAIN authorizedTopics

\* The hook reported a denial to the exception channel
Reported(effects) == \E i \in 1..Len(effects) : effects[i].call = "handleException"

\* C4: authorizePublish(clientId, topic) returns true iff clientId is in the
\* Device Registry, or topic equals clientId, or topic is in the Authorized
\* Topic Set; a denial is reported exactly when the result is false.
C4_PublishPermittedIff ==
    ev.type = "authorizePublish" =>
        /\ Result(out) = (\/ InRegistry(ev.client)
                          \/ ev.topic = ev.client
                          \/ ev.topic \in AuthorizedTopicSet)
        /\ Reported(out) <=> ~Result(out)

\* C4 witness: an unregistered client was allowed to publish to the topic
\* named after itself, which is no authorized topic.
C4_Witness ==
    /\ ev.type = "authorizePublish"
    /\ ~InRegistry(ev.client)
    /\ ev.topic = ev.client
    /\ ev.topic \notin AuthorizedTopicSet
    /\ Result(out) = TRUE
    /\ ~Reported(out)

\* C5: authorizeForward(clientId, packet) returns true iff clientId is in
\* the Device Registry, whatever the packet's topic; a denial is reported
\* exactly when the result is false.
C5_ForwardRegisteredOnly ==
    ev.type = "authorizeForward" =>
        /\ Result(out) = InRegistry(ev.client)
        /\ Reported(out) <=> ~Result(out)

\* C5 witness: an unregistered client was denied forwarding of a packet on
\* the topic named after itself, and the denial was reported.
C5_Witness ==
    /\ ev.type = "authorizeForward"
    /\ ~InRegistry(ev.client)
    /\ ev.topic = ev.client
    /\ Result(out) = FALSE
    /\ Reported(out)

\* C6: authorizeSubscribe returns the boolean authorizePublish returns for
\* the same client and topic, reports a denial under the same condition, and
\* the value it returns is the one that decided the report.
C6_SubscribeSameAsPublish ==
    ev.type = "authorizeSubscribe" =>
        /\ Result(out) = Result(authorizePublish(ev.client, ev.topic))
        /\ Reported(out) <=> Reported(authorizePublish(ev.client, ev.topic))
        /\ Reported(out) <=> ~Result(out)

\* C6 witness: a subscription by an unregistered client to a topic that is
\* neither its own nor authorized was denied and reported.
C6_Witness ==
    /\ ev.type = "authorizeSubscribe"
    /\ ~InRegistry(ev.client)
    /\ ev.topic # ev.client
    /\ ev.topic \notin AuthorizedTopicSet
    /\ Result(out) = FALSE
    /\ Reported(out)

(***************************************************************************)
(* server.on('published'): the message router                              *)
(***************************************************************************)
\* JSON.parse on the payloads the model publishes: ok with the parsed value,
\* or not ok when it throws a SyntaxError
JSONparse(rawMessage) ==
    CASE rawMessage = "{\"temp\":21}" ->
             [ok |-> TRUE, value |-> Obj("temp" :> Num(21))]
      [] rawMessage = "{}"    -> [ok |-> TRUE, value |-> Obj(EmptyMap)]
      [] rawMessage = "null"  -> [ok |-> TRUE, value |-> Null]
      [] rawMessage = "5"     -> [ok |-> TRUE, value |-> Num(5)]
      [] rawMessage = "\"hi\"" -> [ok |-> TRUE, value |-> Str("hi")]
      [] rawMessage = "{\"target\":\"dev1\"}" ->
             [ok |-> TRUE, value |-> Obj("target" :> Str("dev1"))]
      [] rawMessage = "{\"target\":\"\",\"message\":\"on\"}" ->
             [ok |-> TRUE, value |-> Obj("target" :> Str("") @@ "message" :> Str("on"))]
      [] rawMessage = "{\"target\":\"dev1\",\"message\":\"on\"}" ->
             [ok |-> TRUE,
              value |-> Obj("target" :> Str("dev1") @@ "message" :> Str("on"))]
      [] OTHER -> [ok |-> FALSE, value |-> Undefined]

processData(client, rawMessage) ==
    [call |-> "processData", client |-> client, rawMessage |-> rawMessage]
sendMessageToDevice(target, message) ==
    [call |-> "sendMessageToDevice", target |-> target, message |-> message]
sendMessageToGroup(target, message) ==
    [call |-> "sendMessageToGroup", target |-> target, message |-> message]
publish(topic, payload, q, retain) ==
    [call |-> "publish", topic |-> topic, payload |-> payload, qos |-> q,
     retain |-> retain]
logRecord(title, client, data) ==
    [call |-> "log", title |-> title, client |-> client, data |-> data]
\* an exception leaves the callback uncaught; what the host does with it is
\* not part of this file
throw(error) == [call |-> "throw", error |-> <<error>>]

InvalidData ==
    "Invalid data sent. Data must be a valid JSON String. Raw Message: "
InvalidMessage ==
    "Invalid message or command. Message must be a valid JSON String with \"target\" and \"message\" fields. \"target\" is a registered Device ID. \"message\" is the payload."
InvalidGroupMessage ==
    "Invalid group message or command. Group messages must be a valid JSON String with \"target\" and \"message\" fields. \"target\" is a device group id or name. \"message\" is the payload."

\* data pipeline that acknowledges on the data topic
dataCallback_ackOnDataTopic(client, rawMessage) ==
    LET parsed == JSONparse(rawMessage)
    IN IF ~parsed.ok THEN <<log(<<InvalidData, rawMessage>>)>>
       ELSE IF isEmpty(parsed.value)
       THEN <<handleException(<<InvalidData, rawMessage>>)>>
       ELSE <<processData(client, rawMessage),
              publish(dataTopic.s, "Data Received", qos, FALSE),
              logRecord("MQTT Gateway - Data Received.", client, parsed.value)>>

\* data pipeline without the emptiness check
dataCallback_noEmptyCheck(client, rawMessage) ==
    LET parsed == JSONparse(rawMessage)
    IN IF ~parsed.ok THEN <<log(<<InvalidData, rawMessage>>)>>
       ELSE <<processData(client, rawMessage),
              publish(client, "Data Received", qos, FALSE),
              logRecord("MQTT Gateway - Data Received.", client, parsed.value)>>

\* data pipeline that escalates a parse failure to the exception channel
dataCallback_escalates(client, rawMessage) ==
    LET parsed == JSONparse(rawMessage)
    IN IF ~parsed.ok THEN <<handleException(<<InvalidData, rawMessage>>)>>
       ELSE IF isEmpty(parsed.value)
       THEN <<handleException(<<InvalidData, rawMessage>>)>>
       ELSE <<processData(client, rawMessage),
              publish(client, "Data Received", qos, FALSE),
              logRecord("MQTT Gateway - Data Received.", client, parsed.value)>>

\* The final callback of the data-topic waterfall
dataCallback(client, rawMessage) ==
    LET parsed == JSONparse(rawMessage)
    IN IF ~parsed.ok THEN <<log(<<InvalidData, rawMessage>>)>>
       ELSE IF isEmpty(parsed.value)
       THEN <<handleException(<<InvalidData, rawMessage>>)>>
       ELSE <<processData(client, rawMessage),
              publish(client, "Data Received", qos, FALSE),
              logRecord("MQTT Gateway - Data Received.", client, parsed.value)>>

\* The final callback of the message-topic waterfall; msg.target on null
\* throws a TypeError out of the callback
messageCallback(client, rawMessage) ==
    LET parsed == JSONparse(rawMessage)
        msg == parsed.value
    IN IF ~parsed.ok THEN <<handleException(<<InvalidMessage>>)>>
       ELSE IF msg.t \in {"null", "undefined"} THEN <<throw("TypeError")>>
       ELSE IF isEmpty(Get(msg, "target")) \/ isEmpty(Get(msg, "message"))
       THEN <<handleException(<<InvalidMessage>>)>>
       ELSE <<sendMessageToDevice(Get(msg, "target"), Get(msg, "message")),
              publish(client, "Device Message Received", qos, FALSE),
              logRecord("MQTT Gateway - Message Sent.", client, msg)>>

\* group pipeline that acknowledges a message it did not dispatch
groupMessageCallback_acksInvalid(client, rawMessage) ==
    LET parsed == JSONparse(rawMessage)
        msg == parsed.value
    IN IF ~parsed.ok THEN <<handleException(<<InvalidGroupMessage>>)>>
       ELSE IF msg.t \in {"null", "undefined"} THEN <<throw("TypeError")>>
       ELSE IF isEmpty(Get(msg, "target")) \/ isEmpty(Get(msg, "message"))
       THEN <<handleException(<<InvalidGroupMessage>>),
              publish(client, "Group Message Received", qos, FALSE)>>
       ELSE <<sendMessageToGroup(Get(msg, "target"), Get(msg, "message")),
              publish(client, "Group Message Received", qos, FALSE),
              logRecord("MQTT Gateway - Group Message Sent.", client, msg)>>

\* The final callback of the group-message-topic waterfall
groupMessageCallback(client, rawMessage) ==
    LET parsed == JSONparse(rawMessage)
        msg == parsed.value
    IN IF ~parsed.ok THEN <<handleException(<<InvalidGroupMessage>>)>>
       ELSE IF msg.t \in {"null", "undefined"} THEN <<throw("TypeError")>>
       ELSE IF isEmpty(Get(msg, "target")) \/ isEmpty(Get(msg, "message"))
       THEN <<handleException(<<InvalidGroupMessage>>)>>
       ELSE <<sendMessageToGroup(Get(msg, "target"), Get(msg, "message")),
              publish(client, "Group Message Received", qos, FALSE),
              logRecord("MQTT Gateway - Group Message Sent.", client, msg)>>

\* The branch of the handler a topic selects
Branch(topic) ==
    CASE Str(topic) = dataTopic -> "data"
      [] Str(topic) = messageTopic -> "message"
      [] Str(topic) = groupMessageTopic -> "groupmessage"
      [] OTHER -> "none"

\* The handler starts the waterfall of the branch; its final callback runs
\* once the parse task has handed over its result
Published(message, client) ==
    /\ server = "ready"
    /\ LET rawMessage == message.payload
       IN IF Branch(message.topic) # "none"
          THEN /\ Len(pending) < MaxPending
               /\ pending' = Append(pending, [branch |-> Branch(message.topic),
                                              client |-> client,
                                              rawMessage |-> rawMessage,
                                              afterClose |-> closeState # "open"])
          ELSE pending' = pending
    /\ out' = <<>>
    /\ ev' = [type |-> "published", topic |-> message.topic, client |-> client]
    /\ UNCHANGED <<lifecycle, authorizedDevices, config, history>>

\* a scheduler that runs the callback of the newest waiting waterfall first
WaterfallDone_newestFirst ==
    /\ pending # <<>>
    /\ LET task == pending[Len(pending)]
       IN /\ out' = CASE task.branch = "data" ->
                             dataCallback(task.client, task.rawMessage)
                      [] task.branch = "message" ->
                             messageCallback(task.client, task.rawMessage)
                      [] task.branch = "groupmessage" ->
                             groupMessageCallback(task.client, task.rawMessage)
          /\ ev' = [type |-> "waterfall", branch |-> task.branch,
                    client |-> task.client, rawMessage |-> task.rawMessage,
                    afterClose |-> task.afterClose]
    /\ pending' = SubSeq(pending, 1, Len(pending) - 1)
    /\ UNCHANGED <<lifecycle, authorizedDevices, config, history>>

\* The final callbacks run in the order their waterfalls were started
WaterfallDone ==
    /\ pending # <<>>
    /\ LET task == Head(pending)
       IN /\ out' = CASE task.branch = "data" ->
                             dataCallback(task.client, task.rawMessage)
                      [] task.branch = "message" ->
                             messageCallback(task.client, task.rawMessage)
                      [] task.branch = "groupmessage" ->
                             groupMessageCallback(task.client, task.rawMessage)
          /\ ev' = [type |-> "waterfall", branch |-> task.branch,
                    client |-> task.client, rawMessage |-> task.rawMessage,
                    afterClose |-> task.afterClose]
    /\ pending' = Tail(pending)
    /\ UNCHANGED <<lifecycle, authorizedDevices, config, history>>

Payloads ==
    {"{\"temp\":21}", "{}", "null", "5", "\"hi\"", "oops", "{\"target\":\"dev1\"}",
     "{\"target\":\"\",\"message\":\"on\"}", "{\"target\":\"dev1\",\"message\":\"on\"}"}

RouterTopics ==
    {DefaultDataTopic, DefaultMessageTopic, DefaultGroupMessageTopic, "telemetry", "other"}

NextRouter ==
    \/ \E opts \in Options({Undefined}, DataTopicOptions, {Undefined}) :
           Ready(opts, Arr(<<>>))
    \/ ServerReady
    \/ \E topic \in RouterTopics, payload \in Payloads, client \in DeviceIds :
           /\ Branch(topic) = "none" \/ pending = <<>>
           /\ Published([topic |-> topic, payload |-> payload], client)
    \/ WaterfallDone

SpecRouter == Init /\ [][NextRouter]_vars

(***************************************************************************)
(* The router under every configured quality of service, one message at a *)
(* time.                                                                   *)
(***************************************************************************)
NextQos ==
    \/ \E opts \in Options(QosOptions, {Undefined}, {Undefined}) :
           Ready(opts, Arr(<<>>))
    \/ ServerReady
    \/ \E topic \in {DefaultDataTopic, DefaultMessageTopic, DefaultGroupMessageTopic},
          payload \in {"{\"temp\":21}", "{\"target\":\"dev1\",\"message\":\"on\"}"},
          client \in DeviceIds :
           /\ pending = <<>>
           /\ Published([topic |-> topic, payload |-> payload], client)
    \/ WaterfallDone

SpecQos == Init /\ [][NextQos]_vars

(***************************************************************************)
(* Properties of the router.                                               *)
(***************************************************************************)
\* A parsed document with content: an object with a field, an array with an
\* element or a string with a character
NonEmptyDocument(v) ==
    \/ v.t = "object" /\ DOMAIN v.f # {}
    \/ v.t = "array" /\ v.e # <<>>
    \/ v.t = "string" /\ v.s # ""

\* A parsed document that is null or has no content
EmptyDocument(v) ==
    \/ v.t = "null"
    \/ v.t = "object" /\ DOMAIN v.f = {}
    \/ v.t = "array" /\ v.e = <<>>
    \/ v.t = "string" /\ v.s = ""

\* C7: for a publish on the data topic from client c whose payload parses to
\* a non-empty document, the router first dispatches (c, rawPayload) to
\* processData, then publishes "Data Received" to topic c, not retained, and
\* then writes the audit log record.
C7_DataDispatchThenAck ==
    (/\ ev.type = "waterfall" /\ ev.branch = "data"
     /\ JSONparse(ev.rawMessage).ok
     /\ NonEmptyDocument(JSONparse(ev.rawMessage).value))
    => /\ Len(out) = 3
       /\ out[1] = processData(ev.client, ev.rawMessage)
       /\ out[2].call = "publish"
       /\ out[2].topic = ev.client
       /\ out[2].payload = "Data Received"
       /\ out[2].retain = FALSE
       /\ out[3].call = "log"

\* C7 witness: telemetry from dev2 on a configured data topic of its own
\* name was dispatched and acknowledged on topic dev2.
C7_Witness ==
    /\ ev.type = "waterfall" /\ ev.branch = "data"
    /\ ev.client = "dev2"
    /\ ev.rawMessage = "{\"temp\":21}"
    /\ dataTopic = Str("telemetry")
    /\ Len(out) = 3
    /\ out[1].call = "processData"
    /\ out[2].topic = "dev2"

\* The quality of service the options of 'ready' ask for, 0 when absent
RequestedQos ==
    CASE options.qos.t = "number" -> options.qos
      [] options.qos.t = "string" -> parseInt(options.qos)
      [] OTHER -> Num(0)

\* C8 as stated: every acknowledgment the router publishes carries the
\* quality of service given in the options of 'ready' (0, 1 or 2; 0 when
\* absent).
C8_AckCarriesConfiguredQos ==
    \A i \in 1..Len(out) :
        out[i].call = "publish" => out[i].qos = RequestedQos

\* C9: for a publish on the data topic whose payload parses to an empty or
\* null document, the router reports to the exception channel and makes no
\* dispatch, no acknowledgment publish and no audit log.
C9_EmptyDataReportedOnly ==
    (/\ ev.type = "waterfall" /\ ev.branch = "data"
     /\ JSONparse(ev.rawMessage).ok
     /\ EmptyDocument(JSONparse(ev.rawMessage).value))
    => /\ Len(out) = 1
       /\ out[1].call = "handleException"

\* C9 witness: the payload {} on the data topic was reported and nothing
\* else happened.
C9_Witness ==
    /\ ev.type = "waterfall" /\ ev.branch = "data"
    /\ ev.rawMessage = "{}"
    /\ out = <<handleException(<<InvalidData, "{}">>)>>

\* A parsed document that lacks a non-empty target or a non-empty message
LacksTargetOrMessage(v) ==
    \/ v.t # "object"
    \/ "target" \notin DOMAIN v.f
    \/ "message" \notin DOMAIN v.f
    \/ EmptyDocument(v.f["target"])
    \/ EmptyDocument(v.f["message"])

\* C10 as stated: for a publish on the direct-message or the group-message
\* topic whose payload fails to parse or parses to a document without both a
\* non-empty target and a non-empty message (null and non-objects included),
\* the router reports exactly one error naming the required fields to the
\* exception channel and makes no dispatch and no acknowledgment publish.
C10_BadMessageReportedOnce ==
    (/\ ev.type = "waterfall" /\ ev.branch \in {"message", "groupmessage"}
     /\ \/ ~JSONparse(ev.rawMessage).ok
        \/ LacksTargetOrMessage(JSONparse(ev.rawMessage).value))
    => out = <<handleException(<<IF ev.branch = "message"
                                 THEN InvalidMessage
                                 ELSE InvalidGroupMessage>>)>>

(***************************************************************************)
(* platform.on('message'), server.on('delivered'), platform.on('close'),   *)
(* server.on('closed') and server.on('error')                              *)
(***************************************************************************)
sendMessageResponse(messageId, text) ==
    [call |-> "sendMessageResponse", messageId |-> messageId, text |-> text]
notifyClose   == [call |-> "notifyClose"]
close         == [call |-> "close"]
exit(code)    == [call |-> "exit", code |-> code]

\* how many times a handler called platform.notifyClose
NotifyCount(effects) ==
    Cardinality({i \in 1..Len(effects) : effects[i].call = "notifyClose"})

\* A message of the platform for a device; before 'ready' server is
\* undefined and server.publish throws a TypeError out of the handler
Message(message) ==
    /\ out' = IF server = "none" THEN <<throw("TypeError")>>
              ELSE <<publish(message.device, message.message, qos, FALSE),
                     sendMessageResponse(message.messageId, "Message Published"),
                     logRecord("Message Published", message.device,
                               Str(message.message))>>
    /\ ev' = [type |-> "message", device |-> message.device,
              afterClose |-> closeState # "open"]
    /\ UNCHANGED <<lifecycle, authorizedDevices, config, pending, history>>

Delivered(message) ==
    /\ server # "none"
    /\ out' = <<sendMessageResponse(message.messageId, "Message Acknowledged")>>
    /\ ev' = [type |-> "delivered"]
    /\ UNCHANGED <<lifecycle, authorizedDevices, config, pending, history>>

\* The error handler of the domain the close handler runs server.close in
domainError(error) == <<handleException(error), notifyClose>>

\* The close request.  Before 'ready' server is undefined, server.close
\* throws inside the domain and the domain's error handler runs
Close ==
    /\ closeState = "open"
    /\ out' = IF server = "none" THEN domainError(<<"TypeError">>) ELSE <<close>>
    /\ closeState' = IF server = "none" THEN "failed" ELSE "closing"
    /\ notifyCloses' = notifyCloses + NotifyCount(out')
    /\ ev' = [type |-> "close"]
    /\ UNCHANGED <<exited, authorizedDevices, config, pending, history>>

\* The callback handed to server.close: it only leaves the domain
closeCallback == <<>>

\* a closed handler that emits nothing
closedHandler_silent == <<>>

\* server.on('closed')
closedHandler == <<notifyClose>>

\* The broker finished closing: it emits 'closed', then calls the callback.
\* Nothing in the domain's error handler stops a close that is under way
BrokerClosed ==
    /\ closeState \in {"closing", "errored"}
    /\ out' = closedHandler \o closeCallback
    /\ closeState' = "closed"
    /\ notifyCloses' = notifyCloses + NotifyCount(out')
    /\ ev' = [type |-> "closed"]
    /\ UNCHANGED <<exited, authorizedDevices, config, pending, history>>

\* An error is raised while the broker closes: it reaches the domain, whose
\* handler runs once
BrokerCloseFails ==
    /\ closeState = "closing"
    /\ out' = domainError(<<"close failed">>)
    /\ closeState' = "errored"
    /\ notifyCloses' = notifyCloses + NotifyCount(out')
    /\ ev' = [type |-> "closeError"]
    /\ UNCHANGED <<exited, authorizedDevices, config, pending, history>>

\* Error codes of the broker; the address is found in use while the broker
\* binds its port, that is between 'ready' and the broker's own ready
ErrorCodes == {"EADDRINUSE", "ECONNRESET"}

\* server.on('error')
ServerError(error) ==
    /\ server # "none"
    /\ error.code = "EADDRINUSE" => server = "created"
    /\ out' = <<handleException(<<error.code>>)>>
              \o (IF error.code = "EADDRINUSE" THEN <<exit(1)>> ELSE <<>>)
    /\ exited' = (error.code = "EADDRINUSE")
    /\ ev' = [type |-> "error", code |-> error.code]
    /\ UNCHANGED <<closeState, notifyCloses, authorizedDevices, config, pending,
                   history>>

Messages ==
    [device : {"dev1"}, message : {"on"}, messageId : {"m1"}]

(***************************************************************************)
(* Every event of the plugin in any order, with one input of each kind;    *)
(* nothing runs once the process has exited.                               *)
(***************************************************************************)
NextLifecycle ==
    \/ \E opts \in Options({Undefined}, {Undefined}, {Undefined, Str("shared")}),
          registeredDevices \in {Arr(<<>>), Arr(<<Device("dev2")>>)} :
           ~exited /\ Ready(opts, registeredDevices)
    \/ ~exited /\ ServerReady
    \/ \E device \in {Undefined, Device("dev1")} : ~exited /\ AddDevice(device)
    \/ \E device \in {Null, Device("dev1")} : ~exited /\ RemoveDevice(device)
    \/ \E client \in {"dev1", "dev2"} : ~exited /\ AuthorizePublish(client, "dev1")
    \/ \E client \in {"dev1"} : ~exited /\ AuthorizeSubscribe(client, "other")
    \/ \E client \in {"dev1"} :
           ~exited /\ AuthorizeForward(client, [topic |-> "dev1"])
    \/ \E message \in Messages : ~exited /\ Message(message)
    \/ \E message \in Messages : ~exited /\ Delivered(message)
    \/ ~exited /\ Close
    \/ ~exited /\ BrokerClosed
    \/ ~exited /\ BrokerCloseFails
    \/ \E code \in ErrorCodes : ~exited /\ ServerError([code |-> code])
    \/ \E topic \in {DefaultDataTopic, DefaultMessageTopic, "other"},
          payload \in {"{\"temp\":21}", "null", "oops",
                       "{\"target\":\"dev1\",\"message\":\"on\"}"} :
           /\ ~exited
           /\ closeState \in {"open", "closing"}
           /\ pending = <<>>
           /\ Published([topic |-> topic, payload |-> payload], "dev1")
    \/ ~exited /\ WaterfallDone

SpecLifecycle == Init /\ [][NextLifecycle]_vars

(***************************************************************************)
(* Properties of the handlers' error handling and of shutdown.             *)
(***************************************************************************)
\* The handler of the last event let an exception escape
Escaped == \E i \in 1..Len(out) : out[i].call = "throw"

\* C11: for every event, in any order relative to ready and for any payload,
\* no exception escapes the handler uncaught; the process terminates only on
\* a broker error with code EADDRINUSE, the error having been reported to
\* the exception channel before the exit.
C11_NoExceptionEscapes ==
    /\ ~Escaped
    /\ exited => /\ ev.type = "error"
                 /\ ev.code = "EADDRINUSE"
                 /\ out = <<handleException(<<"EADDRINUSE">>), exit(1)>>

(***************************************************************************)
(* The same events under the assumption that a broker asked to close       *)
(* eventually finishes closing or raises an error, as long as the process  *)
(* runs.                                                                   *)
(***************************************************************************)
BrokerCloses ==
    ~exited /\ closeState = "closing" /\ (BrokerClosed \/ BrokerCloseFails)

SpecShutdown == Init /\ [][NextLifecycle]_vars /\ WF_vars(BrokerCloses)

\* The completion signal is out only once the broker has closed or failed,
\* the clean close emits it from the closed event, and a failed close
\* reports the error and emits it too
SignalFollowsClose ==
    /\ notifyCloses > 0 => closeState \in {"closed", "failed", "errored"}
    /\ closeState = "closed" => notifyCloses > 0
    /\ ev.type = "closed" => out = <<notifyClose>>
    /\ ev.type \in {"close", "closeError"} /\ closeState \in {"failed", "errored"}
           => Reported(out) /\ NotifyCount(out) = 1

Dispatches == {"processData", "sendMessageToDevice", "sendMessageToGroup"}

Calls(effects, names) == {i \in 1..Len(effects) : effects[i].call \in names}

\* C13: once a close request has been received, no published event
\* delivered after it results in a dispatch or an acknowledgment publish, and
\* no platform message event delivered after it results in a broker publish.
C13_NoRoutingAfterClose ==
    /\ ev.type = "waterfall" /\ ev.afterClose
           => Calls(out, Dispatches \cup {"publish"}) = {}
    /\ ev.type = "message" /\ ev.afterClose
           => Calls(out, {"publish"}) = {}

(***************************************************************************)
(* server.authenticate                                                     *)
(***************************************************************************)
\* A Buffer holding the bytes of s (the broker hands passwords as buffers)
Buf(s) == [t |-> "buffer", s |-> s]

\* value.toString() of a string or of a buffer
toString(v) == Str(v.s)

\* A connecting client as the broker hands it to the hooks
Client(id) == Obj("id" :> Str(id))

AuthenticationFailed(client) ==
    log(<<"MQTT Gateway - Authentication Failed on Client: ",
          IF ~isEmpty(client) THEN Get(client, "id").s ELSE "No Client ID", ".">>)

\* an authentication hook that compares the username only
authenticate_usernameOnly(client, username, password) ==
    LET user == IF ~isEmpty(username) THEN toString(username) ELSE Str("")
    IN IF options.user = user
       THEN <<callback(TRUE)>>
       ELSE <<AuthenticationFailed(client), callback(FALSE)>>

\* The hook installed when both options.user and options.password are set
authenticate(client, username, password) ==
    LET user == IF ~isEmpty(username) THEN toString(username) ELSE Str("")
        pass == IF ~isEmpty(password) THEN toString(password) ELSE Str("")
    IN IF options.user = user /\ options.password = pass
       THEN <<callback(TRUE)>>
       ELSE <<AuthenticationFailed(client), callback(FALSE)>>

\* The hook is assigned only when both credentials are configured; without
\* it the broker accepts every client
authenticateInstalled == ~isEmpty(options.user) /\ ~isEmpty(options.password)

Authenticate(client, username, password) ==
    /\ server = "ready"
    /\ out' = IF authenticateInstalled
              THEN authenticate(client, username, password)
              ELSE <<callback(TRUE)>>
    /\ ev' = [type |-> "authenticate", username |-> username,
              password |-> password]
    /\ UNCHANGED <<lifecycle, authorizedDevices, config, pending, history>>

UserOptions     == {Undefined, Str(""), Str("admin")}
PasswordOptions == {Undefined, Str(""), Str("secret")}

\* Options with the credentials of the broker set
Credentials(US, PS) ==
    [qos : {Undefined}, data_topic : {Undefined}, message_topic : {Undefined},
     groupmessage_topic : {Undefined}, authorized_topics : {Undefined},
     user : US, password : PS]

\* What a client supplies on connect: nothing, an empty value or a value
Usernames == {Undefined, Str(""), Str("admin"), Str("other")}
Passwords == {Undefined, Buf(""), Buf("secret"), Buf("wrong")}

NextAuth ==
    \/ \E opts \in Credentials(UserOptions, PasswordOptions) :
           Ready(opts, Arr(<<>>))
    \/ ServerReady
    \/ \E client \in {Undefined, Client("dev1")}, username \in Usernames,
          password \in Passwords :
           Authenticate(client, username, password)

SpecAuth == Init /\ [][NextAuth]_vars

\* The supplied credential is present and carries the configured text
Supplies(value, configured) ==
    /\ value.t \in {"string", "buffer"}
    /\ configured.t = "string"
    /\ value.s = configured.s

\* The handler logged the rejection
Logged(effects) == \E i \in 1..Len(effects) : effects[i].call = "log"

\* C14: with the configured user or password empty no client is rejected;
\* with both configured a client is accepted iff the username and the
\* password it supplies equal the configured ones, a client supplying no
\* credentials is rejected, and every rejection is logged with the boolean
\* still returned to the broker.
C14_AuthenticatedIffCredentialsMatch ==
    ev.type = "authenticate" =>
        /\ out[Len(out)].call = "callback"
        /\ isEmpty(options.user) \/ isEmpty(options.password) => Result(out)
        /\ ~isEmpty(options.user) /\ ~isEmpty(options.password) =>
               /\ Result(out) <=> /\ Supplies(ev.username, options.user)
                                  /\ Supplies(ev.password, options.password)
               /\ ev.username = Undefined /\ ev.password = Undefined
                      => ~Result(out)
        /\ ~Result(out) => Logged(out)

C14_Witness ==
    /\ ev.type = "authenticate"
    /\ ~isEmpty(options.user) /\ ~isEmpty(options.password)
    /\ Supplies(ev.username, options.user)
    /\ ~Supplies(ev.password, options.password)
    /\ ~Result(out)

(***************************************************************************)
(* Initialization from a snapshot with identity-less records               *)
(***************************************************************************)
\* The non-empty identities of the records of a snapshot
UsableIdentities(registeredDevices) == Identities(registeredDevices) \ {""}

\* C15: when the registry is initialized from a snapshot, records lacking a
\* usable identity are skipped: the registry then has exactly one entry per
\* non-empty identity of the snapshot and no entry under any other key, and
\* no client id is authorized on account of an identity-less record.
C15_IdentityLessRecordsSkipped ==
    ev.type = "ready" /\ NonEmptySnapshot(ev.registeredDevices) =>
        /\ DOMAIN authorizedDevices = UsableIdentities(ev.registeredDevices)
        /\ \A id \in ClientIds :
               Authorized(id) => id \in UsableIdentities(ev.registeredDevices)

(***************************************************************************)
(* More properties of the router.                                          *)
(***************************************************************************)
\* C16: a data-topic payload that fails to parse is reported on the log
\* channel only: nothing reaches the exception channel, nothing is
\* dispatched to data ingestion and no acknowledgment is published.
C16_DataParseFailureLoggedOnly ==
    ev.type = "waterfall" /\ ev.branch = "data" /\ ~JSONparse(ev.rawMessage).ok =>
        /\ Len(out) = 1
        /\ Logged(out)
        /\ ~Reported(out)
        /\ Calls(out, Dispatches \cup {"publish"}) = {}

C16_Witness ==
    /\ ev.type = "waterfall"
    /\ ev.branch = "data"
    /\ ev.rawMessage = "oops"
    /\ Logged(out)

(***************************************************************************)
(* The router with several messages in flight.                             *)
(***************************************************************************)
NextOrder ==
    \/ \E opts \in DefaultOptions : Ready(opts, Arr(<<>>))
    \/ ServerReady
    \/ \E topic \in {DefaultDataTopic, DefaultMessageTopic},
          payload \in {"{\"temp\":21}", "oops",
                       "{\"target\":\"dev1\",\"message\":\"on\"}"},
          client \in DeviceIds :
           Published([topic |-> topic, payload |-> payload], client)
    \/ WaterfallDone

SpecOrder == Init /\ [][NextOrder]_vars

\* A published event joins the waiting messages behind those that arrived
\* before it, and the callback that runs is that of the message that arrived
\* first; the messages still waiting keep their order
ArrivalOrder ==
    /\ ev'.type = "published" /\ pending' # pending =>
           /\ pending' = Append(pending, pending'[Len(pending')])
           /\ pending'[Len(pending')].client = ev'.client
    /\ ev'.type = "waterfall" =>
           /\ pending # <<>>
           /\ ev'.client = Head(pending).client
           /\ ev'.branch = Head(pending).branch
           /\ ev'.rawMessage = Head(pending).rawMessage
           /\ pending' = Tail(pending)

\* The first index of a call of one of the names, 0 when there is none
First(effects, names) ==
    IF Calls(effects, names) = {} THEN 0
    ELSE CHOOSE i \in Calls(effects, names) :
             \A j \in Calls(effects, names) : i <= j

\* Within one message the dispatch comes only after a successful parse and
\* validation, first among the calls, and the acknowledgment after it
StagesInOrder ==
    ev.type = "waterfall" /\ Calls(out, Dispatches \cup {"publish"}) # {} =>
        /\ JSONparse(ev.rawMessage).ok
        /\ ~isEmpty(JSONparse(ev.rawMessage).value)
        /\ First(out, Dispatches) = 1
        /\ First(out, {"publish"}) = 2

\* C17: published events of the same client are processed in arrival order:
\* of two messages of a client the one delivered first is dispatched (and
\* acknowledged) before the other is; for each message parse, validate and
\* dispatch run in that order, one after the other.
C17_ProcessedInArrivalOrder ==
    /\ []StagesInOrder
    /\ [][ArrivalOrder]_vars

C17_Witness ==
    /\ ev.type = "waterfall"
    /\ Calls(out, Dispatches) # {}
    /\ Len(pending) = 1
    /\ pending[1].client = ev.client
    /\ pending[1].rawMessage # ev.rawMessage
    /\ JSONparse(pending[1].rawMessage).ok

(***************************************************************************)
(* What the handlers leave alone.                                          *)
(***************************************************************************)
\* Events that decide an authorization or route a published message
DecisionsAndRouting ==
    {"authorizePublish", "authorizeSubscribe", "authorizeForward",
     "published", "waterfall"}

\* A step of a decision or of the router changes neither the registry nor
\* the topic set; no step after 'ready' changes the topic set; the registry
\* changes only in adddevice and removedevice, or when 'ready' fills it
FrameStep ==
    /\ ev'.type \in DecisionsAndRouting =>
           /\ authorizedDevices' = authorizedDevices
           /\ authorizedTopics' = authorizedTopics
    /\ server # "none" => authorizedTopics' = authorizedTopics
    /\ authorizedDevices' # authorizedDevices =>
           \/ ev'.type \in {"adddevice", "removedevice"}
           \/ ev'.type = "ready" /\ server = "none"

\* C18: the three authorization decisions and the routing of published
\* messages leave the Device Registry and the Authorized Topic Set
\* unchanged, whether they permit or deny; after ready the Authorized Topic
\* Set never changes, and the registry changes only through adddevice and
\* removedevice events.
C18_DecisionsLeaveRegistryAndTopics == [][FrameStep]_vars

C18_Witness ==
    /\ ev.type = "authorizeForward"
    /\ ~Result(out)
    /\ DOMAIN authorizedDevices # {}
    /\ "shared" \in DOMAIN authorizedTopics

\* The external handler of each branch of the router
HandlerOf(branch) ==
    CASE branch = "data" -> "processData"
      [] branch = "message" -> "sendMessageToDevice"
      [] branch = "groupmessage" -> "sendMessageToGroup"

\* The calls a published event results in: none from the handler itself;
\* from its pipeline at most one dispatch, to the handler of the branch, and
\* at most one acknowledgment, which comes with a dispatch
AtMostOneDispatchAndAck ==
    /\ ev.type = "published" => out = <<>>
    /\ ev.type = "waterfall" =>
           /\ Cardinality(Calls(out, Dispatches)) <= 1
           /\ Cardinality(Calls(out, {"publish"})) <= 1
           /\ Calls(out, Dispatches) = Calls(out, {HandlerOf(ev.branch)})
           /\ Calls(out, {"publish"}) # {} => Calls(out, Dispatches) # {}

\* The topic of a published event alone selects the pipeline that is
\* started; any other topic starts none
ChosenByTopic ==
    ev'.type = "published" =>
        LET topic == Str(ev'.topic)
            started == pending'[Len(pending')]
        IN IF topic \in {dataTopic, messageTopic, groupMessageTopic}
           THEN /\ Len(pending') = Len(pending) + 1
                /\ topic = dataTopic => started.branch = "data"
                /\ topic = messageTopic => started.branch = "message"
                /\ topic = groupMessageTopic => started.branch = "groupmessage"
           ELSE pending' = pending

\* C19: each published event results in at most one dispatch and at most
\* one acknowledgment publish, the handler being chosen by the topic alone
\* (data -> processData, message -> sendMessageToDevice, group message ->
\* sendMessageToGroup, any other topic -> nothing and no error); an
\* acknowledgment is published only for a message that was dispatched.
C19_OneDispatchOneAckByTopic ==
    /\ []AtMostOneDispatchAndAck
    /\ [][ChosenByTopic]_vars

C19_Witness ==
    /\ ev.type = "waterfall"
    /\ ev.branch = "groupmessage"
    /\ Calls(out, {"sendMessageToGroup"}) # {}
    /\ Calls(out, {"publish"}) # {}

\* C20: for each close request notifyClose is emitted at most once: the
\* closed event of the broker and the error path of the close handler never
\* both emit it for the same close request.
C20_NotifiedAtMostOnce == notifyCloses <= 1

(***************************************************************************)
(* The whole plugin: every handler with every input of the model.          *)
(***************************************************************************)
Next ==
    \/ \E opts \in Options(QosOptions, DataTopicOptions, AuthorizedTopicsOptions)
                   \cup Credentials(UserOptions, PasswordOptions),
          registeredDevices \in Snapshots :
           ~exited /\ Ready(opts, registeredDevices)
    \/ ~exited /\ ServerReady
    \/ \E device \in DeviceInputs : ~exited /\ AddDevice(device)
    \/ \E device \in DeviceInputs : ~exited /\ RemoveDevice(device)
    \/ \E client \in ClientIds, topic \in Topics :
           ~exited /\ AuthorizePublish(client, topic)
    \/ \E client \in ClientIds, topic \in Topics :
           ~exited /\ AuthorizeSubscribe(client, topic)
    \/ \E client \in ClientIds, topic \in Topics :
           ~exited /\ AuthorizeForward(client, [topic |-> topic])
    \/ \E client \in {Undefined, Client("dev1")}, username \in Usernames,
          password \in Passwords :
           ~exited /\ Authenticate(client, username, password)
    \/ \E topic \in RouterTopics, payload \in Payloads, client \in ClientIds :
           ~exited /\ Published([topic |-> topic, payload |-> payload], client)
    \/ ~exited /\ WaterfallDone
    \/ \E message \in Messages : ~exited /\ Message(message)
    \/ \E message \in Messages : ~exited /\ Delivered(message)
    \/ ~exited /\ Close
    \/ ~exited /\ BrokerClosed
    \/ ~exited /\ BrokerCloseFails
    \/ \E code \in ErrorCodes : ~exited /\ ServerError([code |-> code])

Spec == Init /\ [][Next]_vars

=============================================================================
